---- MODULE Spec2Model ----
(***************************************************************************)
(* The GFS poller of app/tools/polling.py (poll_gfs_data and the files it  *)
(* reads and writes: polling.json, gribs/gribs.json and the downloaded     *)
(* GRIB files), as a state machine.  One action per step of the polling    *)
(* loop; the remote server, the clock, the stop signal and a restart of    *)
(* the process are the environment.                                        *)
(*                                                                         *)
(* The service side (app/services, app/main.py) is a second specification, *)
(* ServiceSpec: update_gribs_json statement by statement, the constructor  *)
(* and the monitor thread of each processor (_reload_grib_files), and the  *)
(* entry points a client or a caller invokes.  SliceSpec applies           *)
(* ProcessWeatherData._slice_data_to_bounding_box to bounding boxes,       *)
(* ProcessSpec the process_data of each processor to datasets and cells,   *)
(* DescribeSpec the text description steps to speeds and hazard flags.     *)
(* LifeSpec adds the application's shutdown to the poller, and HistSpec is *)
(* the poller with the history of the run recorded.                        *)
(***************************************************************************)
EXTENDS Integers, Sequences, FiniteSets, TLC

\* ------------------------------------------------------------------ bounds
MaxPolls == 2       \* iterations of the polling loop explored
MaxDate == 2        \* date directories gfs.<1> .. gfs.<MaxDate>, in calendar order
MaxCycle == 1       \* cycle directories 0 .. MaxCycle, in numeric order
MaxNow == 49        \* the clock stops advancing here (hours)
TickStep == 49      \* hours the clock advances in one Tick

\* ------------------------------------------------------- program constants
timeout_hours == 48
NoDate == 0         \* latest_date = None
NoCycle == -1       \* latest_cycle = None, cycle_time = None
NoTime == -1        \* no download time yet

Dates == 1..MaxDate
Cycles == 0..MaxCycle
HttpErrors == {403, 404, 500}

\* ------------------------------------------------------------ file names
\* f"gfs.{cycle_time}.pgrb2.0p25.f000": the name's prefix token and its cycle
AtmosTarget(c) == <<"gfs", c>>
\* f"gfswave.{cycle_time}.global.0p16.f000.grib2"
WaveTarget(c) == <<"gfswave", c>>
NoFile == <<"none", NoCycle>>
\* f.startswith(f"{prefix}.{cycle_time}")
StartsWith(f, prefix, c) == f[1] = prefix /\ f[2] = c
\* os.path.join(download_dir, target_file)
LocalPath(dir, f) == <<dir>> \o f
NoPath == <<"none", "none", NoCycle>>
\* atmos_file.split('.')[1]
CycleOfPath(p) == p[3]

FamDir(i) == IF i = 1 THEN "gribs/atmos" ELSE "gribs/wave"
FamKey(i) == IF i = 1 THEN "atmos" ELSE "wave"
FamTargetOf(i, c) == IF c = NoCycle THEN NoFile
                     ELSE IF i = 1 THEN AtmosTarget(c) ELSE WaveTarget(c)
AllPaths == {LocalPath(FamDir(i), FamTargetOf(i, c)) : i \in 1..2, c \in Cycles}

VARIABLES
  polls,                   \* iterations of the while loop started so far
  pc,                      \* position of the poller thread in poll_gfs_data
  fam,                     \* index of the family the for loop is at (1 Atmos, 2 Wave)
  latest_date, latest_cycle, cycle_time,
  downloaded_atmos_files, downloaded_wave_files,
  response,                \* status code of the last listing response
  available_files,         \* links of the last family listing that hold target_file
  download_time,           \* download_file's return value
  stop_event,
  exit_path,               \* which exit of the while loop was taken
  state_file,              \* polling.json
  gribs_json,              \* gribs/gribs.json
  files,                   \* content of each local GRIB path
  now, timeout,            \* the clock; the module-level timeout
  published,               \* history: file names a publish completed for
  history                  \* history of the run, recorded under HistSpec only

\* the service side: the processors of app/services, their monitor threads, the
\* callers of the entry points, and update_gribs_json seen step by step
VARIABLES
  gribs_bytes,             \* what a reader of gribs/gribs.json finds on disk
  ugj_pc,                  \* position of the poller thread inside update_gribs_json
  ugj_args,                \* the arguments of the running update_gribs_json call
  gribs_data,              \* update_gribs_json's local gribs_data
  publishes,               \* update_gribs_json calls started so far
  gribs_updated_event,     \* the Event's internal flag
  wave_grib,               \* self._wave_grib of each processor
  atmos_grib_file_data,    \* self._atmos_grib_file_data of each processor
  wave_grib_file_data,     \* self._wave_grib_file_data of each processor
  mon,                     \* position of each processor's constructor / monitor thread
  reload_was_ready,        \* history: is_ready() when the running / last reload began
  reload_failed,           \* history: the last reload ended in its except clause
  req,                     \* the caller of an entry point
  slice_args,              \* the bounding box _slice_data_to_bounding_box is called with
  slice_pc,                \* position of that call
  slice_ret,               \* what the call returned
  pd,                      \* a process_data call: its dataset, its cells, its outcome
  desc                     \* the text description step of a process_data call

svc == <<gribs_bytes, ugj_pc, ugj_args, gribs_data, publishes, gribs_updated_event,
         wave_grib, atmos_grib_file_data, wave_grib_file_data, mon, reload_was_ready,
         reload_failed, req, slice_args, slice_pc, slice_ret, pd, desc>>

poller == <<polls, pc, fam, latest_date, latest_cycle, cycle_time, downloaded_atmos_files,
            downloaded_wave_files, response, available_files, download_time, stop_event,
            exit_path, state_file, files, now, timeout, published, history>>

vars == <<polls, pc, fam, latest_date, latest_cycle, cycle_time, downloaded_atmos_files,
          downloaded_wave_files, response, available_files, download_time, stop_event, exit_path,
          state_file, gribs_json, files, now, timeout, published, history, svc>>

atmos_target_file == FamTargetOf(1, cycle_time)
wave_target_file == FamTargetOf(2, cycle_time)
target_file == FamTargetOf(fam, cycle_time)
local_path == LocalPath(FamDir(fam), target_file)
downloaded_files == IF fam = 1 THEN downloaded_atmos_files ELSE downloaded_wave_files

\* ------------------------------------------------------------ polling.json
StateRecord(d, c, a, w, flag) ==
  [exists |-> TRUE, latest_date |-> d, latest_cycle |-> c,
   downloaded_atmos_files |-> a, downloaded_wave_files |-> w, is_downloading |-> flag]
\* what load_state returns for a missing file
NoStateFile ==
  [exists |-> FALSE, latest_date |-> NoDate, latest_cycle |-> NoCycle,
   downloaded_atmos_files |-> {}, downloaded_wave_files |-> {}, is_downloading |-> FALSE]
save_state(flag) ==
  state_file' = StateRecord(latest_date', latest_cycle', downloaded_atmos_files',
                            downloaded_wave_files', flag)

\* ------------------------------------------------------------- gribs.json
NoRecord == [path |-> NoPath, download_time |-> NoTime, cycle |-> NoCycle]
GribRecord(path, t) == [path |-> path, download_time |-> t, cycle |-> CycleOfPath(path)]
\* an update_gribs_json that starts from the empty dict, not from the file's content
update_gribs_json_FromEmpty(g, key, path, t) ==
  [[atmos |-> NoRecord, wave |-> NoRecord] EXCEPT ![key] = GribRecord(path, t)]
\* C36 mutant: the download time is stamped on both families' records
update_gribs_json_StampsBoth(g, key, path, t) ==
  [k \in {"atmos", "wave"} |->
     IF k = key THEN GribRecord(path, t)
     ELSE IF g[k] = NoRecord THEN NoRecord ELSE [g[k] EXCEPT !.download_time = t]]
update_gribs_json(g, key, path, t) == [g EXCEPT ![key] = GribRecord(path, t)]

\* ------------------------------------------------------------ the service
\* WeatherService's _wind_processor and _wave_processor
Processors == {"wind", "wave"}
\* a pygrib.open object: the path it was opened on, and whether close() was called
Handle(path) == [path |-> path, state |-> "open"]
\* self._wave_grib = None
NoHandle == [path |-> NoPath, state |-> "none"]
NoArgs == [key |-> "none", path |-> NoPath, t |-> NoTime]
\* {'atmos': None, 'wave': None}
EmptyRegistry == [atmos |-> NoRecord, wave |-> NoRecord]
\* the thread that runs a processor's code, and the statement it is at
At(thread, at) == [thread |-> thread, at |-> at]
\* a response body; a call's position, HTTP status (0: not an HTTP answer), body, and
\* the paths of the handles it has selected messages from, in order
Detail(d) == [detail |-> d]
NoRequest == [kind |-> "none", pc |-> "idle", status |-> 0, body |-> Detail("none"),
              used |-> <<>>]

\* the module-level objects of polling.py and the not yet constructed processors
ServiceStart ==
  /\ gribs_bytes = "whole"
  /\ ugj_pc = "idle" /\ ugj_args = NoArgs /\ gribs_data = EmptyRegistry
  /\ publishes = 0
  /\ gribs_updated_event = FALSE
  /\ wave_grib = [p \in Processors |-> NoHandle]
  /\ atmos_grib_file_data = [p \in Processors |-> NoRecord]
  /\ wave_grib_file_data = [p \in Processors |-> NoRecord]
  /\ mon = [p \in Processors |-> At("main", "new")]
  /\ reload_was_ready = [p \in Processors |-> FALSE]
  /\ reload_failed = [p \in Processors |-> FALSE]
  /\ req = NoRequest

\* ------------------------------------------------------------ the slicing
\* the four bounds of a bounding box
Box(min_lat, max_lat, min_lon, max_lon) ==
  [min_lat |-> min_lat, max_lat |-> max_lat, min_lon |-> min_lon, max_lon |-> max_lon]
NoBox == Box(0, 0, 0, 0)
\* the three arrays a call returns (empty when it raised)
NoReturn == [data |-> <<>>, lats |-> <<>>, lons |-> <<>>]
slicing == <<slice_args, slice_pc, slice_ret>>
\* no call of _slice_data_to_bounding_box is running
SliceStart == slice_args = NoBox /\ slice_pc = "none" /\ slice_ret = NoReturn

\* -------------------------------------------------------- process_data
\* the measurement that stands for not-a-number, and one that is a number
NaN == -1
Number == 1
\* no process_data call is running
NoCall == [kind |-> "none", names |-> {}, cells |-> <<>>, pc |-> "none",
           points |-> <<>>, details |-> {}, error |-> "none"]
ProcessStart == pd = NoCall

\* ---- the text description of a response: the seven hazard flags
IndicatorFlags ==
  {"storm_potential", "severe_storm_risk", "low_visibility", "icing_risk",
   "cold_risk", "heat_risk", "fog_risk"}
NoDescription ==
  [kind |-> "none", wind_speed_knots |-> <<>>,
   hazard_indicators |-> [k \in IndicatorFlags |-> FALSE], max_wind_speed |-> 0,
   pc |-> "none", text |-> <<>>]
DescribeStart == desc = NoDescription

\* ------------------------------------------------------------ the history
\* a target file of one date directory: <<date, cycle, family index>>
Targets == Dates \X Cycles \X (1..2)
\* what an observer of the run has noted: the last two directory listings, the
\* downloaded sets and the registry at the start of the iteration, whether each
\* family's listing of the iteration held its target file, how often each target
\* was downloaded and published (counted up to 2), whether a listing's latest
\* entry ever went back, whether the run still is at the date and cycle it
\* resumed with both files downloaded, and when the cycle became current
NoHistory ==
  [track |-> FALSE, date_dirs |-> {}, cycles |-> {},
   start |-> [atmos |-> {}, wave |-> {},
              registry |-> [atmos |-> NoRecord, wave |-> NoRecord]],
   listed |-> <<"unknown", "unknown">>,
   dl |-> [t \in Targets |-> 0], pub |-> [t \in Targets |-> 0],
   shrunk |-> FALSE, resumed |-> FALSE, current_since |-> NoTime]
Untracked == history = NoHistory
Tracked == history = [NoHistory EXCEPT !.track = TRUE]
\* the observer notes h, if there is an observer
Record(h) == history' = IF history.track THEN h ELSE history
Counted(n) == IF n < 2 THEN n + 1 ELSE 2

\* the module-level state of polling.py and the files on disk at the first start
PollerStart ==
  /\ polls = 0
  /\ pc = "loop_check" /\ fam = 1
  /\ latest_date = NoDate /\ latest_cycle = NoCycle /\ cycle_time = NoCycle
  /\ downloaded_atmos_files = {} /\ downloaded_wave_files = {}
  /\ response = 200 /\ available_files = {} /\ download_time = NoTime
  /\ stop_event = FALSE /\ exit_path = "none"
  /\ state_file = NoStateFile
  /\ gribs_json = [atmos |-> NoRecord, wave |-> NoRecord]
  /\ files = [p \in AllPaths |-> "absent"]
  /\ now = 0 /\ timeout = timeout_hours
  /\ published = {}

Init ==
  PollerStart /\ ServiceStart /\ SliceStart /\ ProcessStart /\ DescribeStart /\ Untracked

\* ------------------------------------------------------------ the poller
mem == <<latest_date, latest_cycle, cycle_time, downloaded_atmos_files,
         downloaded_wave_files>>
env == <<now, timeout, polls>>
WaitPcs == {"wait_nodates", "wait_nocycles", "wait_poll", "wait_error"}

\* a requests.RequestException is raised: control goes to the handler
RequestError ==
  /\ pc' = "except_request"
  /\ UNCHANGED <<fam, mem, available_files, download_time, stop_event, exit_path,
                 state_file, gribs_json, env, published, history>>

\* a failed requests.get: an HTTP error status (raise_for_status raises HTTPError
\* with response bound) or no response at all (response keeps its value)
ErrorResponse == \E r \in HttpErrors \cup {response} : response' = r

\* another Exception is raised: control goes to the last handler
UnexpectedError ==
  /\ pc' = "except_exception"
  /\ UNCHANGED <<fam, mem, response, available_files, download_time, stop_event,
                 exit_path, state_file, gribs_json, env, published, history>>

\* the for loop's continue / end of body
NextFamily ==
  IF fam = 1 THEN pc' = "fam_get" /\ fam' = 2
             ELSE pc' = "check_done" /\ fam' = 1

\* while not stop_event.is_set(): save_state(..., is_downloading=True)
LoopCheck ==
  /\ UNCHANGED svc
  /\ pc = "loop_check"
  /\ UNCHANGED mem
  /\ IF stop_event
       THEN pc' = "after_loop" /\ exit_path' = "stop" /\ UNCHANGED state_file
       ELSE /\ polls < MaxPolls
            /\ pc' = "get_dates" /\ save_state(TRUE) /\ UNCHANGED exit_path
  /\ polls' = IF stop_event THEN polls ELSE polls + 1
  /\ IF stop_event THEN UNCHANGED history
       ELSE Record([history EXCEPT
                      !.start = [atmos |-> downloaded_atmos_files,
                                 wave |-> downloaded_wave_files,
                                 registry |-> gribs_json],
                      !.listed = <<"unknown", "unknown">>])
  /\ UNCHANGED <<fam, response, available_files, download_time, stop_event,
                 gribs_json, files, now, timeout, published>>

\* max(date_dirs, key=lambda d: datetime.strptime(d, 'gfs.%Y%m%d'))
MaxByDate(date_dirs) == CHOOSE d \in date_dirs : \A e \in date_dirs : e <= d

\* the listing of prod_url and the choice of the latest date directory
GetDates ==
  /\ UNCHANGED svc
  /\ pc = "get_dates"
  /\ \/ RequestError /\ ErrorResponse /\ UNCHANGED files
     \/ /\ pc' = "wait_nodates"            \* no link starts with 'gfs.'
        /\ response' = 200
        /\ Record([history EXCEPT !.date_dirs = {}])
        /\ UNCHANGED <<fam, mem, state_file, available_files, download_time,
                       stop_event, exit_path, gribs_json, files, env, published>>
     \/ \E date_dirs \in SUBSET Dates \ {{}} :
          LET new_date == MaxByDate(date_dirs) IN
          /\ pc' = "get_cycles"
          /\ response' = 200
          /\ IF new_date # latest_date
               THEN /\ latest_date' = new_date
                    /\ latest_cycle' = NoCycle
                    /\ UNCHANGED <<cycle_time, downloaded_atmos_files,
                                   downloaded_wave_files>>
                    /\ save_state(TRUE)
               ELSE UNCHANGED <<mem, state_file>>
          /\ Record([history EXCEPT
                       !.date_dirs = date_dirs,
                       !.shrunk = @ \/ new_date < latest_date,
                       !.resumed = @ /\ new_date = latest_date])
          /\ UNCHANGED <<fam, available_files, download_time, stop_event, exit_path,
                         gribs_json, files, env, published>>

\* C29 mutant: a new cycle keeps the downloaded set as it is
Purge_KeepsAll(downloaded, prefix, c) == downloaded

\* {f for f in downloaded if not f.startswith(f"{prefix}.{cycle_time}")}
Purge(downloaded, prefix, c) == {f \in downloaded : ~StartsWith(f, prefix, c)}

\* C26 mutant: the first cycle directory of the listing, which is sorted ascending
MaxByInt_First(cycles) == CHOOSE c \in cycles : \A e \in cycles : c <= e

\* max(cycles, key=int)
MaxByInt(cycles) == CHOOSE c \in cycles : \A e \in cycles : e <= c

\* the listing of the date directory and the choice of the latest cycle
GetCycles ==
  /\ UNCHANGED svc
  /\ pc = "get_cycles"
  /\ \/ RequestError /\ ErrorResponse /\ UNCHANGED files
     \/ /\ pc' = "wait_nocycles"           \* no all-digit link
        /\ response' = 200
        /\ Record([history EXCEPT !.date_dirs = {}, !.cycles = {}])
        /\ UNCHANGED <<fam, mem, state_file, available_files, download_time,
                       stop_event, exit_path, gribs_json, files, env, published>>
     \/ \E cycles \in SUBSET Cycles \ {{}} :
          LET new_cycle == MaxByInt(cycles) IN
          /\ pc' = "fam_get"
          /\ response' = 200
          /\ IF new_cycle # latest_cycle
               THEN /\ latest_cycle' = new_cycle
                    /\ cycle_time' = new_cycle
                    /\ downloaded_atmos_files' =
                         Purge(downloaded_atmos_files, "gfs", new_cycle)
                    /\ downloaded_wave_files' =
                         Purge(downloaded_wave_files, "gfswave", new_cycle)
                    /\ UNCHANGED latest_date
                    /\ save_state(TRUE)
               ELSE UNCHANGED <<mem, state_file>>
          /\ Record([history EXCEPT
                       !.date_dirs = {},
                       !.cycles = cycles,
                       !.shrunk = @ \/ new_cycle < latest_cycle,
                       !.resumed = @ /\ new_cycle = latest_cycle,
                       !.current_since = IF new_cycle # latest_cycle THEN now ELSE @])
          /\ UNCHANGED <<fam, available_files, download_time, stop_event, exit_path,
                         gribs_json, files, env, published>>

\* requests.get(base_url) of one family; raise_for_status()
FamGet ==
  /\ UNCHANGED svc
  /\ pc = "fam_get"
  /\ \/ RequestError /\ UNCHANGED response     \* ConnectionError: no response
     \/ \E code \in HttpErrors :               \* raise_for_status raises HTTPError
          /\ response' = code
          /\ pc' = "fam_http_error"
          /\ Record([history EXCEPT !.cycles = {}])
          /\ UNCHANGED <<fam, available_files>>
     \/ \E links \in SUBSET {target_file} :    \* the links that hold target_file
          /\ response' = 200
          /\ available_files' = links
          /\ pc' = "fam_found"
          /\ Record([history EXCEPT
                       !.cycles = {},
                       !.listed[fam] = IF target_file \in links THEN "yes" ELSE "no"])
          /\ UNCHANGED fam
  /\ UNCHANGED <<mem, download_time, stop_event, exit_path, state_file, gribs_json,
                 files, env, published>>

\* response.status_code == 403
NotYetPublished(code) == code = 403

\* except requests.exceptions.HTTPError: 403 -> continue, anything else -> raise
FamHttpError ==
  /\ UNCHANGED <<svc, history>>
  /\ pc = "fam_http_error"
  /\ IF NotYetPublished(response)
       THEN NextFamily
       ELSE pc' = "except_request" /\ UNCHANGED fam
  /\ UNCHANGED <<mem, response, available_files, download_time, stop_event,
                 exit_path, state_file, gribs_json, files, env, published>>

\* C2 mutant: a local file that already exists is taken for downloaded, so a
\* partially written file is never fetched again
ShouldDownload_SkipExisting ==
  /\ target_file \in available_files /\ target_file \notin downloaded_files
  /\ files[local_path] = "absent"

\* C28 mutant: the test for the target file in the downloaded set is left out
ShouldDownload_IgnoresDownloaded == target_file \in available_files

\* C27 mutant: the test for the target file in the listing is left out
ShouldDownload_IgnoresListing == target_file \notin downloaded_files

\* target_file in available_files and target_file not in downloaded_files
ShouldDownload == target_file \in available_files /\ target_file \notin downloaded_files

\* the test for the target file in the listing
FamFound ==
  /\ UNCHANGED <<svc, history>>
  /\ pc = "fam_found"
  /\ IF ShouldDownload
       THEN pc' = "dl_request" /\ UNCHANGED fam
       ELSE NextFamily
  /\ UNCHANGED <<mem, response, available_files, download_time, stop_event,
                 exit_path, state_file, gribs_json, files, env, published>>

\* download_file: requests.get(file_url, stream=True); raise_for_status()
DlRequest ==
  /\ UNCHANGED <<svc, history>>
  /\ pc = "dl_request"
  /\ \/ RequestError /\ UNCHANGED response
     \/ /\ pc' = "dl_open"
        /\ UNCHANGED <<fam, mem, response, available_files, download_time,
                       stop_event, exit_path, state_file, gribs_json, env, published>>
  /\ UNCHANGED files

\* download_file: open(local_path, 'wb') truncates the file
DlOpen ==
  /\ UNCHANGED <<svc, history>>
  /\ pc = "dl_open"
  /\ \/ UnexpectedError /\ UNCHANGED files      \* OSError
     \/ /\ files' = [files EXCEPT ![local_path] = "partial"]
        /\ pc' = "dl_write"
        /\ UNCHANGED <<fam, mem, response, available_files, download_time,
                       stop_event, exit_path, state_file, gribs_json, env, published>>

\* downloaded_files.add(target_file)
AddDownloaded(downloaded, f) == downloaded \cup {f}

\* download_file: the chunk loop, its return, and downloaded_files.add
DlWrite ==
  /\ UNCHANGED svc
  /\ pc = "dl_write"
  /\ \/ RequestError /\ UNCHANGED <<response, files>>   \* the stream breaks
     \/ UnexpectedError /\ UNCHANGED files              \* OSError on write
     \/ /\ files' = [files EXCEPT ![local_path] = "complete"]
        /\ download_time' = now
        /\ IF fam = 1
             THEN /\ downloaded_atmos_files' =
                       AddDownloaded(downloaded_atmos_files, target_file)
                  /\ UNCHANGED downloaded_wave_files
             ELSE /\ downloaded_wave_files' =
                       AddDownloaded(downloaded_wave_files, target_file)
                  /\ UNCHANGED downloaded_atmos_files
        /\ pc' = "publish"
        /\ Record([history EXCEPT !.dl[<<latest_date, cycle_time, fam>>] = Counted(@)])
        /\ UNCHANGED <<fam, latest_date, latest_cycle, cycle_time, response,
                       available_files, stop_event, exit_path, state_file,
                       gribs_json, env, published>>

\* update_gribs_json(<family>_file=local_path, ...); save_state(..., True)
Publish ==
  /\ UNCHANGED svc
  /\ pc = "publish"
  /\ \/ UnexpectedError                         \* gribs.json unreadable / unwritable
     \/ /\ gribs_json' = update_gribs_json(gribs_json, FamKey(fam), local_path,
                                           download_time)
        /\ published' = published \cup {target_file}
        /\ Record([history EXCEPT !.pub[<<latest_date, cycle_time, fam>>] = Counted(@)])
        /\ UNCHANGED mem
        /\ save_state(TRUE)
        /\ NextFamily
        /\ UNCHANGED <<response, available_files, download_time, stop_event,
                       exit_path, env>>
  /\ UNCHANGED files

\* what the loop does once both target files are in the downloaded sets
CompleteExit == pc' = "after_loop" /\ exit_path' = "complete"
\* what the loop does when datetime.now() > timeout
TimeoutExit == pc' = "after_loop" /\ exit_path' = "timeout"

\* atmos_done / wave_done, the timeout check, the print before the wait
CheckDone ==
  /\ UNCHANGED <<svc, history>>
  /\ pc = "check_done"
  /\ UNCHANGED mem
  /\ IF atmos_target_file \in downloaded_atmos_files
        /\ wave_target_file \in downloaded_wave_files
       THEN save_state(FALSE) /\ CompleteExit
       ELSE IF now > timeout
              THEN save_state(FALSE) /\ TimeoutExit
              ELSE pc' = "wait_poll" /\ UNCHANGED <<state_file, exit_path>>
  /\ UNCHANGED <<fam, response, available_files, download_time, stop_event,
                 gribs_json, files, env, published>>

\* C8 mutant: time.sleep(poll_interval) in place of the interruptible wait
Wait_SleepIgnoresStop ==
  /\ UNCHANGED <<svc, history>>
  /\ pc \in WaitPcs
  /\ pc' = "loop_check"
  /\ UNCHANGED <<fam, mem, response, available_files, download_time, stop_event,
                 exit_path, state_file, gribs_json, files, env, published>>

\* if stop_event.wait(poll_interval): break
Wait ==
  /\ UNCHANGED <<svc, history>>
  /\ pc \in WaitPcs
  /\ IF stop_event
       THEN pc' = "after_loop" /\ exit_path' = "stop"
       ELSE pc' = "loop_check" /\ UNCHANGED exit_path
  /\ UNCHANGED <<fam, mem, response, available_files, download_time, stop_event,
                 state_file, gribs_json, files, env, published>>

\* C9 mutant: the handler of a transport failure leaves the loop
ExceptRequest_Breaks ==
  /\ UNCHANGED <<svc, history>>
  /\ pc = "except_request"
  /\ pc' = "after_loop" /\ exit_path' = "error"
  /\ UNCHANGED <<fam, mem, response, available_files, download_time, stop_event,
                 state_file, gribs_json, files, env, published>>

\* except requests.RequestException: print, then the interruptible wait
ExceptRequest ==
  /\ UNCHANGED <<svc, history>>
  /\ pc = "except_request"
  /\ pc' = "wait_error"
  /\ UNCHANGED <<fam, mem, response, available_files, download_time, stop_event,
                 exit_path, state_file, gribs_json, files, env, published>>

\* except Exception: print, save_state(..., is_downloading=False), break
ExceptException ==
  /\ UNCHANGED <<svc, history>>
  /\ pc = "except_exception"
  /\ UNCHANGED mem
  /\ save_state(FALSE)
  /\ pc' = "after_loop" /\ exit_path' = "error"
  /\ UNCHANGED <<fam, response, available_files, download_time, stop_event,
                 gribs_json, files, env, published>>

\* after the loop: the prints and the final save_state(..., False)
AfterLoop ==
  /\ UNCHANGED <<svc, history>>
  /\ pc = "after_loop"
  /\ UNCHANGED mem
  /\ save_state(FALSE)
  /\ pc' = "done"
  /\ UNCHANGED <<fam, response, available_files, download_time, stop_event,
                 exit_path, gribs_json, files, env, published>>

\* ------------------------------------------------------- the environment
\* stop_polling() / quit(signo, frame)
stop_polling ==
  /\ UNCHANGED <<svc, history>>
  /\ pc # "done" /\ ~stop_event
  /\ stop_event' = TRUE
  /\ UNCHANGED <<pc, fam, mem, response, available_files, download_time, exit_path,
                 state_file, gribs_json, files, env, published>>

\* datetime.now() advances
Tick ==
  /\ UNCHANGED <<svc, history>>
  /\ now + TickStep <= MaxNow
  /\ now' = now + TickStep
  /\ UNCHANGED <<pc, fam, mem, response, available_files, download_time,
                 stop_event, exit_path, state_file, gribs_json, files, timeout,
                 published, polls>>

\* the process is started again: module import, then poll_gfs_data's load_state
Restart ==
  /\ UNCHANGED svc
  /\ pc = "done"
  /\ latest_date' = state_file.latest_date
  /\ latest_cycle' = state_file.latest_cycle
  /\ downloaded_atmos_files' = state_file.downloaded_atmos_files
  /\ downloaded_wave_files' = state_file.downloaded_wave_files
  /\ cycle_time' = IF state_file.latest_date # NoDate
                      /\ state_file.latest_cycle # NoCycle
                     THEN state_file.latest_cycle ELSE NoCycle
  /\ timeout' = now + timeout_hours
  /\ stop_event' = FALSE /\ exit_path' = "none"
  /\ pc' = "loop_check" /\ fam' = 1
  /\ response' = 200 /\ available_files' = {} /\ download_time' = NoTime
  /\ Record([history EXCEPT
               !.date_dirs = {}, !.cycles = {},
               !.resumed = /\ state_file.latest_date # NoDate
                           /\ state_file.latest_cycle # NoCycle
                           /\ AtmosTarget(state_file.latest_cycle)
                                \in state_file.downloaded_atmos_files
                           /\ WaveTarget(state_file.latest_cycle)
                                \in state_file.downloaded_wave_files])
  /\ UNCHANGED <<state_file, gribs_json, files, now, published, polls>>

Next ==
  \/ LoopCheck \/ GetDates \/ GetCycles \/ FamGet \/ FamHttpError \/ FamFound
  \/ DlRequest \/ DlOpen \/ DlWrite \/ Publish \/ CheckDone \/ Wait
  \/ ExceptRequest \/ ExceptException \/ AfterLoop
  \/ stop_polling \/ Tick \/ Restart

Spec == Init /\ [][Next]_vars

\* the same poller with an observer that records the history of the run
HistInit ==
  PollerStart /\ ServiceStart /\ SliceStart /\ ProcessStart /\ DescribeStart /\ Tracked

HistSpec == HistInit /\ [][Next]_vars

\* --------------------------------------------------------- the lifecycle
\* the application shuts down: main.py's shutdown_event hook runs (it has no
\* statement, so stop_event keeps its value), the main thread ends, and the
\* interpreter exits without waiting for the daemon thread poll_gfs_data runs in:
\* the thread ends wherever it is
shutdown_event ==
  /\ UNCHANGED <<svc, history>>
  /\ pc # "killed"
  /\ pc' = "killed"
  /\ UNCHANGED <<fam, mem, response, available_files, download_time, stop_event,
                 exit_path, state_file, gribs_json, files, env, published>>

LifeNext == Next \/ shutdown_event

LifeSpec == Init /\ [][LifeNext]_vars

TypeOK ==
  /\ pc \in {"loop_check", "get_dates", "get_cycles", "fam_get", "fam_http_error",
             "fam_found", "dl_request", "dl_open", "dl_write", "publish",
             "check_done", "except_request", "except_exception", "after_loop",
             "done"} \cup WaitPcs
  /\ fam \in 1..2
  /\ polls \in 0..MaxPolls
  /\ latest_date \in Dates \cup {NoDate}
  /\ latest_cycle \in Cycles \cup {NoCycle}
  /\ cycle_time \in Cycles \cup {NoCycle}
  /\ downloaded_atmos_files \subseteq {AtmosTarget(c) : c \in Cycles}
  /\ downloaded_wave_files \subseteq {WaveTarget(c) : c \in Cycles}
  /\ response \in HttpErrors \cup {200}
  /\ stop_event \in BOOLEAN
  /\ exit_path \in {"none", "stop", "complete", "timeout", "error"}
  /\ \A p \in AllPaths : files[p] \in {"absent", "partial", "complete"}
  /\ now \in 0..MaxNow

\* =============================================================== service
MaxPublishes == 2   \* update_gribs_json calls explored

ugj == <<ugj_pc, ugj_args, gribs_data, publishes>>
registry == <<gribs_json, gribs_bytes>>
attrs == <<wave_grib, atmos_grib_file_data, wave_grib_file_data>>
hist == <<reload_was_ready, reload_failed>>

\* ProcessWeatherData.is_ready()
is_ready(p) == wave_grib[p].state # "none" /\ atmos_grib_file_data[p] # NoRecord

\* ---- update_gribs_json, statement by statement (run by the poller thread)
\* the call in poll_gfs_data: a family's local path and the download time that
\* download_file has just returned (datetime.now() after the k-th download: k)
UgjCall ==
  /\ ugj_pc = "idle" /\ publishes < MaxPublishes
  /\ \E i \in 1..2, c \in Cycles :
       ugj_args' = [key |-> FamKey(i), path |-> LocalPath(FamDir(i), FamTargetOf(i, c)),
                    t |-> publishes + 1]
  /\ publishes' = publishes + 1
  /\ ugj_pc' = "read"
  /\ UNCHANGED <<poller, slicing, pd, desc, registry, gribs_data, gribs_updated_event, attrs, mon, hist, req>>

\* json.load of the current file (or the empty dict) and the family's new entry
UgjRead ==
  /\ ugj_pc = "read"
  /\ gribs_data' = update_gribs_json(gribs_json, ugj_args.key, ugj_args.path, ugj_args.t)
  /\ ugj_pc' = "open_w"
  /\ UNCHANGED <<poller, slicing, pd, desc, registry, ugj_args, publishes, gribs_updated_event, attrs, mon,
                 hist, req>>

\* open(gribs_file, 'w') truncates the file in place
UgjOpenW ==
  /\ ugj_pc = "open_w"
  /\ gribs_bytes' = "empty"
  /\ ugj_pc' = "dump"
  /\ UNCHANGED <<poller, slicing, pd, desc, gribs_json, ugj_args, gribs_data, publishes, gribs_updated_event,
                 attrs, mon, hist, req>>

\* json.dump and the close of the with block
UgjDump ==
  /\ ugj_pc = "dump"
  /\ gribs_json' = gribs_data /\ gribs_bytes' = "whole"
  /\ ugj_pc' = "set"
  /\ UNCHANGED <<poller, slicing, pd, desc, ugj_args, gribs_data, publishes, gribs_updated_event, attrs, mon,
                 hist, req>>

\* Event.wait returns in the threads that are blocked in it when set() notifies,
\* and the monitor loop calls _reload_grib_files
Woken(p) == mon[p].at = "m_blocked"

\* gribs_updated_event.set()
UgjSet ==
  /\ ugj_pc = "set"
  /\ gribs_updated_event' = TRUE
  /\ mon' = [p \in Processors |-> IF Woken(p) THEN At("monitor", "r_close") ELSE mon[p]]
  /\ reload_was_ready' = [p \in Processors |->
                            IF Woken(p) THEN is_ready(p) ELSE reload_was_ready[p]]
  /\ reload_failed' = [p \in Processors |-> IF Woken(p) THEN FALSE ELSE reload_failed[p]]
  /\ ugj_pc' = "clear"
  /\ UNCHANGED <<poller, slicing, pd, desc, registry, ugj_args, gribs_data, publishes, attrs, req>>

\* gribs_updated_event.clear(), and the return (the locals are gone)
UgjClear ==
  /\ ugj_pc = "clear"
  /\ gribs_updated_event' = FALSE
  /\ ugj_pc' = "idle" /\ ugj_args' = NoArgs /\ gribs_data' = EmptyRegistry
  /\ UNCHANGED <<poller, slicing, pd, desc, registry, publishes, attrs, mon, hist, req>>

\* ---- ProcessWeatherData
ReloadPcs == {"r_close", "r_none", "r_select", "r_open_atmos", "r_open_wave"}
\* the statement after the call of _reload_grib_files
AfterReload(m) == At(m.thread, IF m.thread = "main" THEN "start" ELSE "m_clear")
\* the call of _reload_grib_files
EnterReload(p) ==
  /\ mon' = [mon EXCEPT ![p] = At(mon[p].thread, "r_close")]
  /\ reload_was_ready' = [reload_was_ready EXCEPT ![p] = is_ready(p)]
  /\ reload_failed' = [reload_failed EXCEPT ![p] = FALSE]
\* the except clause of _reload_grib_files: log and return
ReloadExcept(p) ==
  /\ mon' = [mon EXCEPT ![p] = AfterReload(mon[p])]
  /\ reload_failed' = [reload_failed EXCEPT ![p] = TRUE]
  /\ UNCHANGED reload_was_ready

\* the history of a reload ends with the next statement of its caller
ForgetReload(p) ==
  /\ reload_was_ready' = [reload_was_ready EXCEPT ![p] = FALSE]
  /\ reload_failed' = [reload_failed EXCEPT ![p] = FALSE]

\* WeatherService.__init__ constructs the processors one after the other
Constructed(p) == mon[p].thread = "monitor"
\* __init__ up to the call of _reload_grib_files
Construct(p) ==
  /\ mon[p] = At("main", "new")
  /\ p = "wave" => Constructed("wind")
  /\ EnterReload(p)
  /\ UNCHANGED <<poller, slicing, pd, desc, registry, ugj, gribs_updated_event, attrs, req>>

\* if self._wave_grib: self._wave_grib.close()
ReloadClose(p) ==
  /\ mon[p].at = "r_close"
  /\ IF wave_grib[p].state # "none"
       THEN /\ wave_grib' = [wave_grib EXCEPT ![p].state = "closed"]
            /\ mon' = [mon EXCEPT ![p].at = "r_none"]
       ELSE /\ mon' = [mon EXCEPT ![p].at = "r_select"]
            /\ UNCHANGED wave_grib
  /\ UNCHANGED <<poller, slicing, pd, desc, registry, ugj, gribs_updated_event, atmos_grib_file_data,
                 wave_grib_file_data, hist, req>>

\* self._wave_grib = None (the second, identical if finds None)
ReloadNone(p) ==
  /\ mon[p].at = "r_none"
  /\ wave_grib' = [wave_grib EXCEPT ![p] = NoHandle]
  /\ mon' = [mon EXCEPT ![p].at = "r_select"]
  /\ UNCHANGED <<poller, slicing, pd, desc, registry, ugj, gribs_updated_event, atmos_grib_file_data,
                 wave_grib_file_data, hist, req>>

\* load_gribs_metadata: json.load raises on a file that is not whole
load_gribs_metadata == gribs_json
\* _select_latest_grib_files
select_latest_grib_files(data) ==
  IF data.atmos # NoRecord THEN <<data.atmos, data.wave>> ELSE <<NoRecord, NoRecord>>

\* self._atmos_grib_file_data, self._wave_grib_file_data = self._select_latest_grib_files()
ReloadSelect(p) ==
  /\ mon[p].at = "r_select"
  /\ IF gribs_bytes = "whole"
       THEN /\ atmos_grib_file_data' =
                 [atmos_grib_file_data EXCEPT
                    ![p] = select_latest_grib_files(load_gribs_metadata)[1]]
            /\ wave_grib_file_data' =
                 [wave_grib_file_data EXCEPT
                    ![p] = select_latest_grib_files(load_gribs_metadata)[2]]
            /\ mon' = [mon EXCEPT ![p].at = "r_open_atmos"]
            /\ UNCHANGED hist
       ELSE /\ ReloadExcept(p)
            /\ UNCHANGED <<atmos_grib_file_data, wave_grib_file_data>>
  /\ UNCHANGED <<poller, slicing, pd, desc, registry, ugj, gribs_updated_event, wave_grib, req>>

\* if self._atmos_grib_file_data: self._wave_grib = pygrib.open(path)
ReloadOpenAtmos(p) ==
  /\ mon[p].at = "r_open_atmos"
  /\ IF atmos_grib_file_data[p] # NoRecord
       THEN \/ /\ wave_grib' = [wave_grib EXCEPT ![p] = Handle(atmos_grib_file_data[p].path)]
               /\ mon' = [mon EXCEPT ![p].at = "r_open_wave"]
               /\ UNCHANGED hist
            \/ ReloadExcept(p) /\ UNCHANGED wave_grib     \* pygrib.open raises
       ELSE /\ mon' = [mon EXCEPT ![p].at = "r_open_wave"]
            /\ UNCHANGED <<wave_grib, hist>>
  /\ UNCHANGED <<poller, slicing, pd, desc, registry, ugj, gribs_updated_event, atmos_grib_file_data,
                 wave_grib_file_data, req>>

\* if self._wave_grib_file_data: self._wave_grib = pygrib.open(path); return
ReloadOpenWave(p) ==
  /\ mon[p].at = "r_open_wave"
  /\ IF wave_grib_file_data[p] # NoRecord
       THEN \/ /\ wave_grib' = [wave_grib EXCEPT ![p] = Handle(wave_grib_file_data[p].path)]
               /\ mon' = [mon EXCEPT ![p] = AfterReload(mon[p])]
               /\ reload_failed' = [reload_failed EXCEPT ![p] = FALSE]
               /\ UNCHANGED reload_was_ready
            \/ ReloadExcept(p) /\ UNCHANGED wave_grib     \* pygrib.open raises
       ELSE /\ mon' = [mon EXCEPT ![p] = AfterReload(mon[p])]
            /\ reload_failed' = [reload_failed EXCEPT ![p] = FALSE]
            /\ UNCHANGED <<wave_grib, reload_was_ready>>
  /\ UNCHANGED <<poller, slicing, pd, desc, registry, ugj, gribs_updated_event, atmos_grib_file_data,
                 wave_grib_file_data, req>>

\* _start_update_monitor: the monitor thread starts, __init__ returns
StartMonitor(p) ==
  /\ mon[p] = At("main", "start")
  /\ mon' = [mon EXCEPT ![p] = At("monitor", "m_wait")]
  /\ ForgetReload(p)
  /\ UNCHANGED <<poller, slicing, pd, desc, registry, ugj, gribs_updated_event, attrs, req>>

\* gribs_updated_event.wait(): returns at once if the flag is set (and the loop
\* calls _reload_grib_files), else blocks
MonitorWait(p) ==
  /\ mon[p].at = "m_wait"
  /\ IF gribs_updated_event
       THEN EnterReload(p)
       ELSE mon' = [mon EXCEPT ![p].at = "m_blocked"] /\ UNCHANGED hist
  /\ UNCHANGED <<poller, slicing, pd, desc, registry, ugj, gribs_updated_event, attrs, req>>

\* gribs_updated_event.clear() of the monitor loop
MonitorClear(p) ==
  /\ mon[p].at = "m_clear"
  /\ gribs_updated_event' = FALSE
  /\ mon' = [mon EXCEPT ![p].at = "m_wait"]
  /\ ForgetReload(p)
  /\ UNCHANGED <<poller, slicing, pd, desc, registry, ugj, attrs, req>>

\* ---- the entry points of app/main.py and of WeatherService
\* wind_service = WeatherService() has returned
ServiceUp == \A p \in Processors : Constructed(p)
\* a call begins: a client's valid request, or a direct call of WeatherService
Begins(kind) == req.pc = "idle" /\ ServiceUp
\* the call ends: an HTTP answer, a returned value or a raised exception
Ends(kind, status, body) ==
  req' = [req EXCEPT !.kind = kind, !.pc = "done", !.status = status, !.body = body]
NotReady == Detail("GRIB files not yet available. Please try again in a few minutes.")
Healthy(ready) == [status |-> "healthy", gfs_ready |-> ready]

\* POST handlers without the except HTTPException: raise clause: the 503 raised
\* inside the try is caught by except Exception and answered as 500
PostHandler_SwallowsHTTPException(kind) ==
  /\ Begins(kind)
  /\ Ends(kind, 500, IF is_ready("wind") THEN Detail("AttributeError") ELSE NotReady)
  /\ UNCHANGED <<poller, slicing, pd, desc, registry, ugj, gribs_updated_event, attrs, mon, hist>>

\* the body of both POST handlers: 503 unless wind_service.is_ready(); then
\* request.name, a field BoundingBox does not have: the AttributeError is caught by
\* except Exception and answered as 500 (the code after it never runs)
PostHandler(kind) ==
  /\ Begins(kind)
  /\ IF is_ready("wind") THEN Ends(kind, 500, Detail("AttributeError"))
                         ELSE Ends(kind, 503, NotReady)
  /\ UNCHANGED <<poller, slicing, pd, desc, registry, ugj, gribs_updated_event, attrs, mon, hist>>

get_wind_data == PostHandler("get_wind_data")
get_marine_hazards == PostHandler("get_marine_hazards")

health_check ==
  /\ Begins("health_check")
  /\ Ends("health_check", 200, Healthy(is_ready("wind")))
  /\ UNCHANGED <<poller, slicing, pd, desc, registry, ugj, gribs_updated_event, attrs, mon, hist>>

\* WeatherService.process_wind_data(bbox): ProcessWindData.process_data reads
\* self._atmos_grib, an attribute no code assigns
process_wind_data ==
  /\ Begins("process_wind_data")
  /\ Ends("process_wind_data", 0, Detail("AttributeError"))
  /\ UNCHANGED <<poller, slicing, pd, desc, registry, ugj, gribs_updated_event, attrs, mon, hist>>

\* WeatherService.process_wave_data(bbox): ProcessWaveData.process_data up to
\* if not self._wave_grib or not self._wave_grib_file_data
process_wave_data ==
  /\ Begins("process_wave_data")
  /\ IF wave_grib["wave"].state = "none" \/ wave_grib_file_data["wave"] = NoRecord
       THEN Ends("process_wave_data", 0, Detail("Wave GRIB file not available"))
       ELSE req' = [req EXCEPT !.kind = "process_wave_data", !.pc = "wave_select"]
  /\ UNCHANGED <<poller, slicing, pd, desc, registry, ugj, gribs_updated_event, attrs, mon, hist>>

\* the messages process_data selects: height, period, direction
NSelects == 3
\* self._wave_grib.select(...): each statement reads the attribute again; a closed
\* or None handle raises, which process_data raises on as Exception
WaveSelect ==
  /\ req.pc = "wave_select"
  /\ IF wave_grib["wave"].state = "open"
       THEN \E used \in {req.used \o <<wave_grib["wave"].path>>} :
              IF Len(used) = NSelects
                THEN req' = [req EXCEPT !.pc = "done", !.body = Detail("data"),
                                        !.used = used]
                ELSE req' = [req EXCEPT !.used = used]
       ELSE Ends("process_wave_data", 0, Detail("Error extracting wave components"))
  /\ UNCHANGED <<poller, slicing, pd, desc, registry, ugj, gribs_updated_event, attrs, mon, hist>>

\* the caller takes the outcome
Return ==
  /\ req.pc = "done"
  /\ req' = NoRequest
  /\ UNCHANGED <<poller, slicing, pd, desc, registry, ugj, gribs_updated_event, attrs, mon, hist>>

ServiceNext ==
  \/ UgjCall \/ UgjRead \/ UgjOpenW \/ UgjDump \/ UgjSet \/ UgjClear
  \/ \E p \in Processors :
       \/ Construct(p) \/ ReloadClose(p) \/ ReloadNone(p) \/ ReloadSelect(p)
       \/ ReloadOpenAtmos(p) \/ ReloadOpenWave(p) \/ StartMonitor(p)
       \/ MonitorWait(p) \/ MonitorClear(p)
  \/ get_wind_data \/ get_marine_hazards \/ health_check
  \/ process_wind_data \/ process_wave_data \/ WaveSelect \/ Return

ServiceSpec == Init /\ [][ServiceNext]_vars

\* =============================================================== slicing
\* ProcessWeatherData._slice_data_to_bounding_box on a regular global grid in
\* the GFS convention: latitudes from 90 down to -90, longitudes from 0 up to
\* (but not including) 360
GridRows == 3       \* latitude rows of the grid
GridCols == 4       \* longitude columns of the grid
LatCells == 6       \* a box's latitudes are multiples of 180 / LatCells
LonCells == 8       \* a box's longitudes are multiples of 360 / LonCells

LatAt(i) == 90 - (i - 1) * (180 \div (GridRows - 1))
LonAt(j) == (j - 1) * (360 \div GridCols)
\* grb.data(): the values and the coordinate arrays, row by row
lats_full == [i \in 1..GridRows |-> [j \in 1..GridCols |-> LatAt(i)]]
lons_full == [i \in 1..GridRows |-> [j \in 1..GridCols |-> LonAt(j)]]
data_full == [i \in 1..GridRows |-> [j \in 1..GridCols |-> (i - 1) * GridCols + j]]

BoxLats == {-90 + k * (180 \div LatCells) : k \in 0..LatCells}
BoxLons == {-180 + k * (360 \div LonCells) : k \in 0..LonCells}
\* the boxes the validators of BoundingBox accept
Boxes == {b \in [min_lat : BoxLats, max_lat : BoxLats, min_lon : BoxLons, max_lon : BoxLons] :
            b.max_lat > b.min_lat /\ b.max_lon > b.min_lon}

\* min_lon + 360 if min_lon < 0 else min_lon
\* C38 mutant: the bound is compared as it was given, without the conversion
ToGfs_Unconverted(lon) == lon
ToGfs(lon) == IF lon < 0 THEN lon + 360 ELSE lon
\* np.where(sliced_lons > 180, sliced_lons - 360, sliced_lons), one element
FromGfs(lon) == IF lon > 180 THEN lon - 360 ELSE lon
\* np.where((lats_full[:, 0] >= min_lat) & (lats_full[:, 0] <= max_lat))[0]
lat_indices(b) == {i \in 1..GridRows : lats_full[i][1] >= b.min_lat /\ lats_full[i][1] <= b.max_lat}
\* np.where((lons_full[0, :] >= min_lon_gfs) & (lons_full[0, :] <= max_lon_gfs))[0]
lon_indices(b) ==
  {j \in 1..GridCols : lons_full[1][j] >= ToGfs(b.min_lon) /\ lons_full[1][j] <= ToGfs(b.max_lon)}
\* indices[0] and indices[-1] of an ascending index array
First(S) == CHOOSE x \in S : \A y \in S : x <= y
\* C34 mutant: the last index is taken for the exclusive end of the slice
Last_AsSliceEnd(S) == (CHOOSE x \in S : \A y \in S : x >= y) - 1
Last(S) == CHOOSE x \in S : \A y \in S : x >= y
\* a[r0:r1+1, c0:c1+1]
Slice(a, r0, r1, c0, c1) ==
  [i \in 1..(r1 - r0 + 1) |-> [j \in 1..(c1 - c0 + 1) |-> a[r0 + i - 1][c0 + j - 1]]]
\* the tuple the function returns for a box with grid points in it
SliceOf(b) ==
  [data |-> Slice(data_full, First(lat_indices(b)), Last(lat_indices(b)),
                  First(lon_indices(b)), Last(lon_indices(b))),
   lats |-> Slice(lats_full, First(lat_indices(b)), Last(lat_indices(b)),
                  First(lon_indices(b)), Last(lon_indices(b))),
   lons |-> [i \in 1..(Last(lat_indices(b)) - First(lat_indices(b)) + 1) |->
              [j \in 1..(Last(lon_indices(b)) - First(lon_indices(b)) + 1) |->
                 FromGfs(lons_full[First(lat_indices(b)) + i - 1]
                                  [First(lon_indices(b)) + j - 1])]]]

\* C21 mutant: the slices are returned without the test for empty index arrays
slice_data_to_bounding_box_NoEmptyTest ==
  /\ slice_pc = "call"
  /\ slice_pc' = "returned"
  /\ slice_ret' = IF lat_indices(slice_args) = {} \/ lon_indices(slice_args) = {}
                    THEN NoReturn ELSE SliceOf(slice_args)
  /\ UNCHANGED <<poller, gribs_json, slice_args, gribs_bytes, ugj, gribs_updated_event,
                 attrs, mon, hist, req, pd, desc>>

\* the call: ValueError when no grid point lies in the box, else the slices
slice_data_to_bounding_box ==
  /\ slice_pc = "call"
  /\ IF lat_indices(slice_args) = {} \/ lon_indices(slice_args) = {}
       THEN slice_pc' = "raised" /\ UNCHANGED slice_ret
       ELSE slice_pc' = "returned" /\ slice_ret' = SliceOf(slice_args)
  /\ UNCHANGED <<poller, gribs_json, slice_args, gribs_bytes, ugj, gribs_updated_event,
                 attrs, mon, hist, req, pd, desc>>

\* a process_data call passes its request's bounding box
SliceInit ==
  /\ PollerStart /\ ServiceStart /\ ProcessStart /\ DescribeStart /\ Untracked
  /\ slice_args \in Boxes /\ slice_pc = "call" /\ slice_ret = NoReturn

SliceNext == slice_data_to_bounding_box

SliceSpec == SliceInit /\ [][SliceNext]_vars

\* ========================================================== process_data
\* process_data of the three processors on a ready processor: the GRIB messages
\* the opened file holds (by name), and the cells of the slice, each with the
\* measurements the point loop reads
NCells == 2         \* grid cells of the slice

Kinds == {"wind", "wave", "hazards"}
\* the names each process_data passes to select(name=...), in the order of the code
SelectNames(kind) ==
  IF kind = "wind" THEN <<"10 metre U wind component", "10 metre V wind component">>
  ELSE IF kind = "wave"
    THEN <<"Significant height of combined wind waves and swell",
           "Primary wave mean period", "Primary wave direction">>
    ELSE <<"Wind speed (gust)">>
\* the names _process_hazard_indicators selects
IndicatorNames ==
  {"Precipitation rate", "Convective available potential energy",
   "Maximum/Composite radar reflectivity", "Visibility",
   "Percent frozen precipitation", "2 metre temperature", "2 metre relative humidity"}
Range(f) == {f[i] : i \in DOMAIN f}
RequiredNames(kind) ==
  Range(SelectNames(kind)) \cup (IF kind = "hazards" THEN IndicatorNames ELSE {})
\* the measurements of one cell the point loop reads
CellFields(kind) ==
  IF kind = "wind" THEN {"u", "v"}
  ELSE IF kind = "wave" THEN {"height", "period", "direction"}
  ELSE {"gust"}
Calls ==
  {[kind |-> k, names |-> n, cells |-> c, pc |-> "call", points |-> <<>>,
    details |-> {}, error |-> "none"] :
     k \in {"wind"}, n \in SUBSET RequiredNames("wind"),
     c \in [1..NCells -> [CellFields("wind") -> {NaN, Number}]]}
  \cup
  {[kind |-> k, names |-> n, cells |-> c, pc |-> "call", points |-> <<>>,
    details |-> {}, error |-> "none"] :
     k \in {"wave"}, n \in SUBSET RequiredNames("wave"),
     c \in [1..NCells -> [CellFields("wave") -> {NaN, Number}]]}
  \cup
  {[kind |-> k, names |-> n, cells |-> c, pc |-> "call", points |-> <<>>,
    details |-> {}, error |-> "none"] :
     k \in {"hazards"}, n \in SUBSET RequiredNames("hazards"),
     c \in [1..NCells -> [CellFields("hazards") -> {NaN, Number}]]}

\* np.isnan
isnan(x) == x = NaN
\* arithmetic on measurements: not-a-number if an operand is
Arith(x, y) == IF isnan(x) \/ isnan(y) THEN NaN ELSE Number
\* self._wave_grib.select(name=...)[0] raises when no message has the name
SelectRaises(names, wanted) == \E i \in DOMAIN wanted : wanted[i] \notin names
\* the exception leaves process_data
Raise(msg) == pd' = [pd EXCEPT !.pc = "raised", !.error = msg]
Returns(points, details) ==
  pd' = [pd EXCEPT !.pc = "returned", !.points = points, !.details = details]
frame_process == <<poller, gribs_json, slicing, gribs_bytes, ugj, gribs_updated_event,
                   attrs, mon, hist, req, desc>>

\* ProcessWeatherData.__init__ never assigns self._atmos_grib
has_atmos_grib == FALSE
\* one point of the wind / hazards loop: the cell and its wind_speed_knots
SpeedPoint(i, speed) == [cell |-> i, values |-> [wind_speed_knots |-> speed]]
\* the wind loop: a point for every cell, wind_speed_knots = sqrt(u**2 + v**2) * 1.94384
WindPoints(cells) ==
  [i \in 1..Len(cells) |-> SpeedPoint(i, Arith(cells[i]["u"], cells[i]["v"]))]
\* ProcessWindData.process_data
wind_process_data ==
  /\ pd.kind = "wind" /\ pd.pc = "call"
  /\ IF ~has_atmos_grib THEN Raise("AttributeError")
     ELSE IF SelectRaises(pd.names, SelectNames("wind"))
       THEN Raise("Error extracting wind components")
       ELSE Returns(WindPoints(pd.cells), {})
  /\ UNCHANGED frame_process

\* if not (np.isnan(height) or np.isnan(period) or np.isnan(direction))
WaveCellKept(cell) ==
  ~(isnan(cell["height"]) \/ isnan(cell["period"]) \/ isnan(cell["direction"]))
\* the wave loop: a point for every cell that passes the test, in order
RECURSIVE WavePointsFrom(_, _)
WavePointsFrom(cells, i) ==
  IF i > Len(cells) THEN <<>>
  ELSE (IF WaveCellKept(cells[i]) THEN <<[cell |-> i, values |-> cells[i]]>> ELSE <<>>)
       \o WavePointsFrom(cells, i + 1)
WavePoints(cells) == WavePointsFrom(cells, 1)
\* ProcessWaveData.process_data
wave_process_data ==
  /\ pd.kind = "wave" /\ pd.pc = "call"
  /\ IF SelectRaises(pd.names, SelectNames("wave"))
       THEN Raise("Error extracting wave components")
       ELSE Returns(WavePoints(pd.cells), {})
  /\ UNCHANGED frame_process

\* the hazards loop: a point for every cell, wind_speed_knots = gust * 1.94384
HazardPoints(cells) ==
  [i \in 1..Len(cells) |-> SpeedPoint(i, Arith(cells[i]["gust"], Number))]
\* _process_hazard_indicators: every block is a try whose except clause only logs;
\* the keys of indicators["details"] each block reaches, given the names present.
\* A block stops at its first absent name; cape_data, reflectivity_data, vis_data
\* and temp_c are bound only if the block that selects them got that far.
StormDetails(names) ==
  IF "Precipitation rate" \notin names THEN {}
  ELSE {"max_precipitation_rate_mmh"} \cup
    (IF "Convective available potential energy" \notin names THEN {}
     ELSE {"max_cape_jkg"} \cup
       (IF "Maximum/Composite radar reflectivity" \notin names THEN {}
        ELSE {"max_reflectivity_db"}))
VisibilityDetails(names) ==
  IF "Visibility" \in names THEN {"min_visibility_nm"} ELSE {}
temp_c_bound(names) ==
  "Percent frozen precipitation" \in names /\ "2 metre temperature" \in names
IcingDetails(names) == IF temp_c_bound(names) THEN {"max_frozen_precip"} ELSE {}
TemperatureDetails(names) ==
  IF temp_c_bound(names) THEN {"min_temp_c", "max_temp_c"} ELSE {}
FogDetails(names) ==
  IF "2 metre relative humidity" \in names /\ "Visibility" \in names
    THEN {"max_rh_percent"} ELSE {}
process_hazard_indicators(names) ==
  StormDetails(names) \cup VisibilityDetails(names) \cup IcingDetails(names)
    \cup TemperatureDetails(names) \cup FogDetails(names)
\* ProcessMarineHazards.process_data
hazards_process_data ==
  /\ pd.kind = "hazards" /\ pd.pc = "call"
  /\ IF SelectRaises(pd.names, SelectNames("hazards"))
       THEN Raise("Error extracting wind gusts")
       ELSE Returns(HazardPoints(pd.cells), process_hazard_indicators(pd.names))
  /\ UNCHANGED frame_process

\* a call on a ready processor, with any dataset and any cells
ProcessInit ==
  PollerStart /\ ServiceStart /\ SliceStart /\ DescribeStart /\ Untracked /\ pd \in Calls

ProcessNext == wind_process_data \/ wave_process_data \/ hazards_process_data

ProcessSpec == ProcessInit /\ [][ProcessNext]_vars

\* ===================================================== text descriptions
\* the description step of ProcessWindData.process_data (wind_speed_knots is the
\* sliced speed array) and ProcessMarineHazards._generate_description.  Speeds
\* are in tenths of a knot.
NSpeeds == 2        \* elements of wind_speed_knots

Knots(k) == 10 * k
Speeds == {NaN, Knots(10) - 1, Knots(10), Knots(20) - 1, Knots(20), Knots(30) - 1,
           Knots(30)}
Gusts == {NaN, Knots(25) - 1, Knots(25)}
\* a comparison with not-a-number is false
Less(x, y) == ~isnan(x) /\ ~isnan(y) /\ x < y
AtLeast(x, y) == ~isnan(x) /\ ~isnan(y) /\ x >= y
\* np.nanmax: the largest element that is a number, not-a-number if none is
nanmax(a) ==
  IF \A i \in DOMAIN a : isnan(a[i]) THEN NaN
  ELSE CHOOSE x \in Range(a) : ~isnan(x) /\ \A i \in DOMAIN a : isnan(a[i]) \/ a[i] <= x

\* C35 mutant: the thresholds compared with <= in place of <
wind_desc_Inclusive(max_speed) ==
  IF ~isnan(max_speed) /\ max_speed <= Knots(10) THEN "light winds"
  ELSE IF ~isnan(max_speed) /\ max_speed <= Knots(20) THEN "moderate winds"
  ELSE IF ~isnan(max_speed) /\ max_speed <= Knots(30) THEN "strong winds"
  ELSE "very strong winds"

\* if max_speed < 10: ... elif max_speed < 20: ... elif max_speed < 30: ... else: ...
wind_desc(max_speed) ==
  IF Less(max_speed, Knots(10)) THEN "light winds"
  ELSE IF Less(max_speed, Knots(20)) THEN "moderate winds"
  ELSE IF Less(max_speed, Knots(30)) THEN "strong winds"
  ELSE "very strong winds"

\* process_data of the wind processor: max_speed = np.nanmax(wind_speed_knots),
\* then the description built around wind_desc
describe_wind ==
  /\ desc.kind = "wind" /\ desc.pc = "call"
  /\ desc' = [desc EXCEPT !.pc = "returned",
                          !.text = <<wind_desc(nanmax(desc.wind_speed_knots))>>]
  /\ UNCHANGED <<poller, gribs_json, slicing, gribs_bytes, ugj, gribs_updated_event,
                 attrs, mon, hist, req, pd>>

Caution == "Sailors should exercise caution and monitor conditions closely."
NoHazards == "No significant hazards are expected, but vigilance is advised."
\* description_parts.append(...) if the flag is set
Part(hazard_indicators, flag) == IF hazard_indicators[flag] THEN <<flag>> ELSE <<>>
\* description_parts before the summary: the introduction, the wind gust
\* sentence (always appended), and a sentence for every flag that is set
description_parts(hazard_indicators, max_wind_speed) ==
  <<"This chart highlights marine weather hazards">>
  \o <<IF AtLeast(max_wind_speed, Knots(25)) THEN "hazardous gusts"
                                             ELSE "No significant wind gusts">>
  \o Part(hazard_indicators, "storm_potential")
  \o Part(hazard_indicators, "severe_storm_risk")
  \o Part(hazard_indicators, "low_visibility")
  \o Part(hazard_indicators, "icing_risk")
  \o Part(hazard_indicators, "cold_risk")
  \o Part(hazard_indicators, "heat_risk")
  \o Part(hazard_indicators, "fog_risk")
\* ProcessMarineHazards._generate_description: if len(description_parts) > 1
generate_description(hazard_indicators, max_wind_speed) ==
  description_parts(hazard_indicators, max_wind_speed)
  \o <<IF Len(description_parts(hazard_indicators, max_wind_speed)) > 1
         THEN Caution ELSE NoHazards>>

\* the call of _generate_description in ProcessMarineHazards.process_data
describe_hazards ==
  /\ desc.kind = "hazards" /\ desc.pc = "call"
  /\ desc' = [desc EXCEPT !.pc = "returned",
                          !.text = generate_description(desc.hazard_indicators,
                                                        desc.max_wind_speed)]
  /\ UNCHANGED <<poller, gribs_json, slicing, gribs_bytes, ugj, gribs_updated_event,
                 attrs, mon, hist, req, pd>>

\* any speed array, and any flags with any maximum gust
Descriptions ==
  {[NoDescription EXCEPT !.kind = "wind", !.pc = "call", !.wind_speed_knots = a] :
     a \in [1..NSpeeds -> Speeds]}
  \cup
  {[NoDescription EXCEPT !.kind = "hazards", !.pc = "call", !.hazard_indicators = h,
                         !.max_wind_speed = g] :
     h \in [IndicatorFlags -> BOOLEAN], g \in Gusts}

DescribeInit ==
  /\ PollerStart /\ ServiceStart /\ SliceStart /\ ProcessStart /\ Untracked
  /\ desc \in Descriptions

DescribeNext == describe_wind \/ describe_hazards

DescribeSpec == DescribeInit /\ [][DescribeNext]_vars

\* ================================================================ claims
RegistryKeys == {"atmos", "wave"}
downloaded_sets == <<downloaded_atmos_files, downloaded_wave_files>>
BothDone == /\ atmos_target_file \in downloaded_atmos_files
            /\ wave_target_file \in downloaded_wave_files

\* C1: in every reachable state each registry record names a local path whose
\* content is a completely downloaded file (no download writes into the path the
\* registry currently names).
C1_RegistryPathComplete ==
  \A k \in RegistryKeys :
    gribs_json[k] # NoRecord => files[gribs_json[k].path] = "complete"

\* C2: a transport failure of download_file leaves the target file out of the
\* family's downloaded set and leaves the registry as it was; the handler goes
\* to the interruptible wait, from which the loop iterates again unless stop is
\* set; and in any iteration whose listing holds a target file that is not in
\* the downloaded set, the download is attempted.
C2_DownloadFailureRetried ==
  /\ [][(pc \in {"dl_request", "dl_write"} /\ pc' = "except_request")
          => /\ UNCHANGED <<downloaded_sets, gribs_json, published>>
             /\ target_file' = target_file
             /\ target_file' \notin downloaded_files']_vars
  /\ [][(pc = "except_request" /\ pc' # pc)
          => pc' = "wait_error" /\ UNCHANGED <<downloaded_sets, gribs_json>>]_vars
  /\ [][(pc = "wait_error" /\ pc' # pc /\ ~stop_event) => pc' = "loop_check"]_vars
  /\ [][(pc = "fam_found" /\ pc' # pc /\ target_file \in available_files
           /\ target_file \notin downloaded_files) => pc' = "dl_request"]_vars

\* C2 witness: a download is attempted again on a path that an earlier, failed
\* attempt left partially written, the file still not in the downloaded set
C2_Witness ==
  /\ pc = "dl_request"
  /\ files[local_path] = "partial"
  /\ target_file \notin downloaded_files
  /\ target_file \notin published

\* C3: a file name is in a downloaded set of the persisted polling state only if
\* a registry publish for that file has completed (the in-memory sets are one
\* step ahead of the persisted ones).
C3_PersistedDownloadedWasPublished ==
  (state_file.downloaded_atmos_files \cup state_file.downloaded_wave_files)
    \subseteq published

\* C4: every entry of the downloaded sets carries the currently remembered cycle.
C4_DownloadedOnlyCurrentCycle ==
  latest_cycle # NoCycle =>
    \A f \in downloaded_atmos_files \cup downloaded_wave_files : f[2] = latest_cycle

\* C5: (latest_date, latest_cycle) never decreases in the (date, cycle) order,
\* the unknown cycle of a newly detected later date included.
C5_CycleNeverDecreases ==
  [][\/ latest_date' > latest_date
     \/ latest_date' = latest_date /\ latest_cycle' >= latest_cycle]_vars

\* C6: once both target files of the cycle are downloaded (and the timeout has
\* not passed) the loop goes on to its wait; it does not end.
C6_KeepsPollingAfterCompleteCycle ==
  [][(pc = "check_done" /\ BothDone /\ now <= timeout) => pc' # "after_loop"]_vars

\* C7: with the timeout exceeded for an incomplete cycle the loop goes on to its
\* wait; it does not end.
C7_TimeoutNeverEndsLoop ==
  [][(pc = "check_done" /\ ~BothDone /\ now > timeout) => pc' # "after_loop"]_vars

\* C8: with stop_event set the loop is left at the next loop check or wait, and
\* once the thread has ended polling.json holds the in-memory date, cycle and
\* downloaded sets with is_downloading = false.
C8_StopExitsAndFinalState ==
  /\ [][(stop_event /\ pc \in WaitPcs \cup {"loop_check"} /\ pc' # pc)
          => pc' = "after_loop"]_vars
  /\ [][(pc = "after_loop" /\ pc' # pc)
          => /\ pc' = "done"
             /\ state_file' = StateRecord(latest_date', latest_cycle',
                                          downloaded_atmos_files',
                                          downloaded_wave_files', FALSE)
             /\ UNCHANGED mem]_vars
  /\ [](pc = "done" =>
          state_file = StateRecord(latest_date, latest_cycle, downloaded_atmos_files,
                                   downloaded_wave_files, FALSE))

\* C8 witness: the thread ended through the stop signal after a file had been
\* downloaded and published
C8_Witness ==
  /\ pc = "done" /\ exit_path = "stop" /\ stop_event
  /\ downloaded_atmos_files # {}
  /\ state_file.downloaded_atmos_files = downloaded_atmos_files

\* C9: a RequestException raised by a listing or a download reaches the handler
\* with the downloaded sets and the registry as they were; the handler changes
\* neither, goes to the interruptible wait and the loop iterates again unless
\* stop is set; a transport failure never ends the loop by itself.
C9_TransportFailureNeverEndsPolling ==
  /\ [][(pc' = "except_request" /\ pc # pc')
          => /\ pc \in {"get_dates", "get_cycles", "fam_get", "fam_http_error",
                        "dl_request", "dl_write"}
             /\ UNCHANGED <<downloaded_sets, gribs_json, state_file>>]_vars
  /\ [][(pc = "except_request" /\ pc' # pc)
          => /\ pc' = "wait_error"
             /\ UNCHANGED <<mem, gribs_json, state_file, exit_path>>]_vars
  /\ [][(pc = "wait_error" /\ pc' # pc)
          => IF stop_event THEN pc' = "after_loop" /\ exit_path' = "stop"
                           ELSE pc' = "loop_check"]_vars

\* C9 witness: the loop iterates again after a transport failure that followed a
\* publish in the same run
C9_Witness ==
  /\ pc = "get_dates" /\ response \in HttpErrors /\ ~stop_event
  /\ gribs_json["atmos"] # NoRecord
  /\ exit_path = "none"

\* C10: a 403 or 404 answer to the Atmos listing skips the Atmos family only: the
\* Wave listing is requested next, in the same iteration, with no state change.
C10_NotYetPublishedSkipsOneFamily ==
  [][(pc = "fam_http_error" /\ fam = 1 /\ response \in {403, 404} /\ pc' # pc)
       => pc' = "fam_get" /\ fam' = 2 /\ UNCHANGED <<mem, gribs_json, state_file>>]_vars

\* ---------------------------------------------------------------- service
\* the family a processor reads: ProcessWindData atmos, ProcessWaveData wave
FamilyOf(p) == IF p = "wind" THEN "atmos" ELSE "wave"
\* the family whose directory a local path lies in
FamilyOfPath(path) == IF path[1] = FamDir(1) THEN "atmos" ELSE "wave"
\* nothing runs until the next publish: no update_gribs_json in progress, the
\* flag cleared, the monitor thread of p blocked in wait()
Quiet(p) == ugj_pc = "idle" /\ ~gribs_updated_event /\ mon[p].at = "m_blocked"

\* C11: no publish notification is lost: once the publisher is idle and the
\* monitor of a processor blocks in wait() again, a handle the processor holds
\* open on a file of its family is open on the path the family's latest registry
\* record names.
C11_NoPublishLost ==
  \A p \in Processors :
    (/\ Quiet(p)
     /\ wave_grib[p].state = "open"
     /\ FamilyOfPath(wave_grib[p].path) = FamilyOf(p))
    => wave_grib[p].path = gribs_json[FamilyOf(p)].path

\* C12: a processor that was ready when a reload began, and whose reload ended
\* in its except clause (the registry could not be read, or pygrib.open raised),
\* still holds an open handle and is_ready() is still true.
C12_FailedReloadKeepsHandle ==
  \A p \in Processors :
    (reload_was_ready[p] /\ reload_failed[p])
    => (wave_grib[p].state = "open" /\ is_ready(p))

\* C13: a process_data call that has selected its first message from an open
\* handle selects the others from it too: it never meets a closed or None
\* handle, and never reads from the handles of two different files.
C13_RequestKeepsItsHandle ==
  (req.kind = "process_wave_data" /\ Len(req.used) >= 1) =>
    /\ req.body # Detail("Error extracting wave components")
    /\ \A i, j \in 1..Len(req.used) : req.used[i] = req.used[j]

\* C14: whenever a processor's load_gribs_metadata reads gribs.json, the file on
\* disk is a whole record set (the one before or the one after an update), never
\* the emptied file of an update in progress.
C14_ReaderSeesWholeRegistry ==
  [][\A p \in Processors :
       (mon[p].at = "r_select" /\ mon'[p].at # "r_select") => gribs_bytes = "whole"]_vars

\* C15: the download_time of a family's registry record never decreases, and
\* neither does the download_time of the record a processor serves for a family
\* (self._atmos_grib_file_data, self._wave_grib_file_data): no step replaces a
\* record by an older one.
C15_DownloadTimeNeverDecreases ==
  [][/\ \A k \in RegistryKeys : gribs_json'[k].download_time >= gribs_json[k].download_time
     /\ \A p \in Processors :
          /\ atmos_grib_file_data'[p].download_time >= atmos_grib_file_data[p].download_time
          /\ wave_grib_file_data'[p].download_time >= wave_grib_file_data[p].download_time]_vars

\* a monitor-thread reload of a ready processor has replaced the atmos record it
\* served by the record of a second, later atmos publish
C15_Witness ==
  \E p \in Processors :
    /\ mon[p] = At("monitor", "m_clear") /\ reload_was_ready[p] /\ ~reload_failed[p]
    /\ publishes = 2 /\ gribs_json.wave = NoRecord
    /\ atmos_grib_file_data[p] = gribs_json.atmos
    /\ atmos_grib_file_data[p].download_time = 2

\* the wind processor holds an open handle on a file of the atmos family
WindHandleOpen ==
  wave_grib["wind"].state = "open" /\ FamilyOfPath(wave_grib["wind"].path) = "atmos"

\* C16: WeatherService.is_ready() is true exactly when the wind processor holds
\* an open atmospheric handle, and a process_wind_data call made while
\* is_ready() is true returns data (it does not fail for lack of a handle).
C16_ReadyIffHandleOpen ==
  [][/\ is_ready("wind") <=> WindHandleOpen
     /\ (is_ready("wind") /\ req.pc = "idle" /\ req'.kind = "process_wind_data")
        => req'.body = Detail("data")]_vars

\* no update_gribs_json has written a record yet
BeforeAnyPublish == gribs_json = EmptyRegistry

\* C17: a POST /wind-data or POST /marine-hazards call made before any publish
\* is answered 503 with the "not yet available" detail, not 500 and not data.
C17_NotReadyBeforeAnyPublish ==
  [][(/\ BeforeAnyPublish /\ req.pc = "idle"
      /\ req'.kind \in {"get_wind_data", "get_marine_hazards"})
     => (req'.pc = "done" /\ req'.status = 503 /\ req'.body = NotReady)]_vars

\* both entry points have been answered before any publish (the first publish is
\* in progress: its record is not written yet)
C17_Witness ==
  /\ BeforeAnyPublish /\ publishes = 1
  /\ req.kind = "get_marine_hazards" /\ req.pc = "done" /\ req.status = 503

\* C18: a POST /wind-data call with a valid bounding box, made while the service
\* is ready, is answered 200 (with the data points), not with an error status.
C18_WindDataSucceedsWhenReady ==
  [][(is_ready("wind") /\ req.pc = "idle" /\ req'.kind = "get_wind_data")
     => req'.status = 200]_vars

\* C19: every answer of GET /health has status 200 and the body
\* {"status": "healthy"}, nothing else, ready or not.
C19_HealthBodyExact ==
  (req.kind = "health_check" /\ req.pc = "done")
  => (req.status = 200 /\ req.body = [status |-> "healthy"])

\* ---------------------------------------------------------------- slicing
\* the longitudes a call returned
ReturnedLons == {slice_ret.lons[i][j] : i \in 1..Len(slice_ret.lons),
                                        j \in 1..Len(slice_ret.lons[1])}

\* C20: for a box with min_lon < 0, every longitude _slice_data_to_bounding_box
\* returns lies in [min_lon, max_lon] and in [-180, 180].
C20_ReturnedLonsInsideBox ==
  (slice_pc = "returned" /\ slice_args.min_lon < 0) =>
    \A lon \in ReturnedLons :
      /\ slice_args.min_lon <= lon /\ lon <= slice_args.max_lon
      /\ -180 <= lon /\ lon <= 180

\* C21: a box with no grid row between its latitudes, or no grid column between
\* its longitudes converted to the grid's 0..360 convention, makes
\* _slice_data_to_bounding_box raise; a call that returns never returns an
\* empty array.
NoRowInBox ==
  \A i \in 1..GridRows : LatAt(i) < slice_args.min_lat \/ LatAt(i) > slice_args.max_lat
NoColumnInBox ==
  \A j \in 1..GridCols :
    LonAt(j) < ToGfs(slice_args.min_lon) \/ LonAt(j) > ToGfs(slice_args.max_lon)
NonEmptyArray(a) == Len(a) >= 1 /\ \A i \in 1..Len(a) : Len(a[i]) >= 1
C21_EmptyRegionRaises ==
  /\ (slice_pc \in {"raised", "returned"} /\ (NoRowInBox \/ NoColumnInBox))
       => (slice_pc = "raised" /\ slice_ret = NoReturn)
  /\ slice_pc = "returned"
       => /\ NonEmptyArray(slice_ret.data)
          /\ NonEmptyArray(slice_ret.lats)
          /\ NonEmptyArray(slice_ret.lons)

\* C21 witness: the call raised for a box that lies between two grid rows while
\* grid columns lie between its longitudes
C21_Witness == slice_pc = "raised" /\ NoRowInBox /\ ~NoColumnInBox

\* ----------------------------------------------------------- process_data
\* C22: a returned list of points holds a point for a cell exactly when every
\* measurement the processor reads for that cell is a number, and no emitted
\* point carries a not-a-number measurement.
EmittedCells == {pd.points[k].cell : k \in DOMAIN pd.points}
AllNumbers(cell) == \A m \in DOMAIN cell : ~isnan(cell[m])
C22_PointsHaveNoNaN ==
  pd.pc = "returned" =>
    /\ \A i \in DOMAIN pd.cells : i \in EmittedCells <=> AllNumbers(pd.cells[i])
    /\ \A k \in DOMAIN pd.points : AllNumbers(pd.points[k].values)

\* C23: a call on a dataset that lacks a name the processor requires raises; it
\* never returns.
MissingName == RequiredNames(pd.kind) \ pd.names # {}
C23_MissingFieldRaises ==
  (pd.pc \in {"returned", "raised"} /\ MissingName) => pd.pc = "raised"

\* -------------------------------------------------------------- lifecycle
\* C24: when the process has exited after an application shutdown, the stop
\* signal was set and the poller thread had made its final state write:
\* polling.json holds the in-memory state with is_downloading = false.
C24_ShutdownStopsPoller ==
  pc = "killed" =>
    /\ stop_event
    /\ state_file = StateRecord(latest_date, latest_cycle, downloaded_atmos_files,
                                downloaded_wave_files, FALSE)

\* ----------------------------------------------------------------- poller
\* C25: the step that detects a date directory different from the remembered one
\* resets latest_cycle to unknown and empties the downloaded sets of the entries
\* of the previous date (every entry they hold was added under the remembered or
\* an earlier date), so that the state persisted for the new date holds none.
C25_DateChangePurges ==
  [][(pc = "get_dates" /\ latest_date' # latest_date)
       => /\ latest_cycle' = NoCycle
          /\ downloaded_atmos_files' = {} /\ downloaded_wave_files' = {}
          /\ state_file'.latest_date = latest_date'
          /\ state_file'.downloaded_atmos_files = {}
          /\ state_file'.downloaded_wave_files = {}]_vars

\* C26: after the listing of prod_url the remembered date is the latest of the
\* listed date directories; after the listing of that directory the remembered
\* cycle is the greatest of the listed cycle directories, and the two target
\* file names are the Atmos and Wave names of that cycle.
C26_SelectsLatestDateAndCycle ==
  /\ pc = "get_cycles" =>
       /\ latest_date \in history.date_dirs
       /\ \A d \in history.date_dirs : d <= latest_date
  /\ (pc = "fam_get" /\ fam = 1) =>
       /\ latest_cycle \in history.cycles
       /\ \A c \in history.cycles : c <= latest_cycle
       /\ cycle_time = latest_cycle
       /\ atmos_target_file = AtmosTarget(latest_cycle)
       /\ wave_target_file = WaveTarget(latest_cycle)

\* C26 witness: the listings held every date and every cycle directory, and the
\* latest of each was selected
C26_Witness ==
  /\ pc = "fam_get" /\ fam = 1
  /\ history.cycles = Cycles /\ Cardinality(Cycles) > 1
  /\ latest_date = MaxDate /\ latest_cycle = MaxCycle
  /\ wave_target_file = WaveTarget(MaxCycle)

\* the downloaded set of a family, now and at the start of the iteration
DownloadedOf(i) == IF i = 1 THEN downloaded_atmos_files ELSE downloaded_wave_files
StartDownloadedOf(i) == IF i = 1 THEN history.start.atmos ELSE history.start.wave
PersistedDownloadedOf(i) ==
  IF i = 1 THEN state_file.downloaded_atmos_files ELSE state_file.downloaded_wave_files
FamPrefix(i) == IF i = 1 THEN "gfs" ELSE "gfswave"
\* the for loop of the iteration has ended and family i's listing did not hold
\* its target file
NotListed(i) == pc = "check_done" /\ history.listed[i] = "no"
DlPcs == {"dl_request", "dl_open", "dl_write", "publish"}

\* C27 as stated: an iteration whose listing for a family does not hold the
\* target file leaves the family's downloaded set (in memory and in polling.json)
\* and the family's registry record as they were when the iteration began.
C27_NotListedChangesNothing ==
  \A i \in 1..2 :
    NotListed(i) =>
      /\ DownloadedOf(i) = StartDownloadedOf(i)
      /\ PersistedDownloadedOf(i) = StartDownloadedOf(i)
      /\ gribs_json[FamKey(i)] = history.start.registry[FamKey(i)]

\* C27 amended: such an iteration makes no download attempt for the family and
\* leaves the family's registry record unchanged; the family's downloaded set is
\* the one the iteration began with, less the entries the cycle detection purged
\* (those named after the newly detected cycle), and the step that finds the
\* target file missing changes no state.
C27_NotListedNoDownload ==
  /\ [](\A i \in 1..2 :
          NotListed(i) =>
            /\ DownloadedOf(i) \in {StartDownloadedOf(i),
                                    Purge(StartDownloadedOf(i), FamPrefix(i), cycle_time)}
            /\ PersistedDownloadedOf(i) = DownloadedOf(i)
            /\ gribs_json[FamKey(i)] = history.start.registry[FamKey(i)])
  /\ [][(pc = "fam_found" /\ target_file \notin available_files)
          => /\ pc' \notin DlPcs
             /\ UNCHANGED <<mem, gribs_json, state_file, files, published>>]_vars

\* C27 witness: the iteration found a new cycle, purged the Atmos entry named
\* after it, and its Atmos listing did not hold the target file
C27_Witness ==
  /\ NotListed(1)
  /\ downloaded_atmos_files # history.start.atmos
  /\ atmos_target_file \notin downloaded_atmos_files

\* C28: as long as no listing's latest entry has gone back, every target file
\* (date, cycle, family) has been downloaded at most once and published at most
\* once; and a download is never under way for a file that is in its family's
\* downloaded set.
C28_DownloadedAtMostOnce ==
  /\ ~history.shrunk => \A t \in Targets : history.dl[t] <= 1 /\ history.pub[t] <= 1
  /\ pc \in {"dl_request", "dl_open", "dl_write"} => target_file \notin downloaded_files
\* C28 witness: in a later iteration the Atmos listing again holds the target
\* file downloaded before, and control has passed on to the Wave family
C28_Witness ==
  /\ polls = 2 /\ pc = "fam_get" /\ fam = 2
  /\ history.listed[1] = "yes"
  /\ history.start.atmos = {atmos_target_file}
  /\ history.dl[<<latest_date, cycle_time, 1>>] = 1
  /\ ~history.shrunk
\* C29: a run resumed from a polling.json that holds both target files of its
\* date and cycle makes no download and no publish while the listings still show
\* that date and cycle; a target file listed and not in the downloaded set is
\* downloaded; and a file is taken for already downloaded only if it was
\* downloaded under the current date and cycle (never a file of the same name
\* downloaded under an earlier date).
C29_RestartResumes ==
  /\ [](history.resumed => pc \notin DlPcs)
  /\ []((pc = "fam_found" /\ target_file \in downloaded_files)
          => history.dl[<<latest_date, cycle_time, fam>>] >= 1)
  /\ [][(pc = "fam_found" /\ pc' # "fam_found" /\ target_file \in available_files
           /\ target_file \notin downloaded_files) => pc' = "dl_request"]_vars

\* C29 witness: the run before completed date 1, the process was restarted, the
\* date advanced with the same cycle hour, and the Atmos file of the new date is
\* being requested
C29_Witness ==
  /\ pc = "dl_request" /\ fam = 1 /\ latest_date = 2
  /\ history.start.atmos = {atmos_target_file}
  /\ history.start.wave = {wave_target_file}
  /\ history.dl[<<1, cycle_time, 1>>] = 1 /\ history.dl[<<1, cycle_time, 2>>] = 1
  /\ history.dl[<<2, cycle_time, 1>>] = 0

\* a resumed run that found its date and cycle unchanged and both files
\* downloaded has passed both families without a download
C29_WitnessResumed ==
  /\ history.resumed /\ pc = "check_done"
  /\ history.listed = <<"yes", "yes">>

\* C30: the loop is left through the timeout guard only when the current cycle
\* became current more than timeout_hours ago.
C30_TimeoutMeasuredPerCycle ==
  (pc = "after_loop" /\ exit_path = "timeout")
    => now - history.current_since > timeout_hours

\* C31: when the thread has ended through the handler of an unexpected local
\* error, polling.json has is_downloading = false and its downloaded sets are
\* the sets the loop held, each entry a file whose registry publish completed.
C31_LocalErrorLeavesExactRecord ==
  (pc = "done" /\ exit_path = "error")
    => /\ ~state_file.is_downloading
       /\ state_file.downloaded_atmos_files = downloaded_atmos_files
       /\ state_file.downloaded_wave_files = downloaded_wave_files
       /\ (state_file.downloaded_atmos_files \cup state_file.downloaded_wave_files)
            \subseteq published

\* C32: the step of a reload that reads the registry takes each family's record
\* by itself: the held record of a family is the registry's record of that
\* family (absent if the family was never published), whatever the record of
\* the other family is; and a reload that ends without an error holding a wave
\* record has opened the handle on that record's path.
C32_RegistryReadPerFamily ==
  /\ [][\A p \in Processors :
          (mon[p].at = "r_select" /\ mon'[p].at = "r_open_atmos")
            => /\ atmos_grib_file_data'[p] = gribs_json.atmos
               /\ wave_grib_file_data'[p] = gribs_json.wave]_vars
  /\ [][\A p \in Processors :
          (mon[p].at = "r_open_wave" /\ mon'[p] = AfterReload(mon[p])
             /\ ~reload_failed'[p] /\ wave_grib_file_data[p] # NoRecord)
            => wave_grib'[p] = Handle(wave_grib_file_data[p].path)]_vars

\* C33: a step of a reload changes an open handle (closes it, drops it or
\* replaces it) only if the registry's path for the family of the handle's file
\* differs from the path the handle is open on.
C33_ReloadKeepsUnchangedHandle ==
  [][\A p \in Processors :
       (wave_grib[p].state = "open" /\ wave_grib'[p] # wave_grib[p])
         => gribs_json[FamilyOfPath(wave_grib[p].path)].path # wave_grib[p].path]_vars

\* the cells of the grid inside the box: latitude within [min_lat, max_lat],
\* native longitude within the converted [min_lon, max_lon]
CellsInBox ==
  {c \in (1..GridRows) \X (1..GridCols) :
     /\ LatAt(c[1]) >= slice_args.min_lat /\ LatAt(c[1]) <= slice_args.max_lat
     /\ LonAt(c[2]) >= ToGfs(slice_args.min_lon)
     /\ LonAt(c[2]) <= ToGfs(slice_args.max_lon)}
SameShape(a, b) ==
  Len(a) = Len(b) /\ \A i \in 1..Len(a) : Len(a[i]) = Len(b[i])
ReturnedCells ==
  {<<slice_ret.data[i][j], slice_ret.lats[i][j], slice_ret.lons[i][j]>> :
     i \in 1..Len(slice_ret.data), j \in 1..Len(slice_ret.data[1])}

\* C34: a returned block holds exactly the grid cells inside the box, each once:
\* the three outputs have one shape, and position by position they give a
\* cell's value, its latitude and its longitude (converted back to -180..180).
C34_SliceIsExactlyTheBox ==
  slice_pc = "returned"
    => /\ NonEmptyArray(slice_ret.data)
       /\ SameShape(slice_ret.data, slice_ret.lats)
       /\ SameShape(slice_ret.data, slice_ret.lons)
       /\ \A i \in 1..Len(slice_ret.data) :
            Len(slice_ret.data[i]) = Len(slice_ret.data[1])
       /\ ReturnedCells =
            {<<data_full[c[1]][c[2]], LatAt(c[1]), FromGfs(LonAt(c[2]))>> :
               c \in CellsInBox}
       /\ Len(slice_ret.data) * Len(slice_ret.data[1]) = Cardinality(CellsInBox)

\* C34 witness: a returned block of two rows and two columns, part of the grid
C34_Witness ==
  /\ slice_pc = "returned"
  /\ Len(slice_ret.data) = 2 /\ Len(slice_ret.data[1]) = 2
  /\ Cardinality(CellsInBox) = 4

\* C35: the wind description is "light winds" for a maximum speed below 10
\* knots, "moderate winds" from 10 to below 20, "strong winds" from 20 to below
\* 30 and "very strong winds" from 30 on, the maximum taken over the elements of
\* the slice that are numbers.
MaxSpeed == nanmax(desc.wind_speed_knots)
C35_WindDescriptionThresholds ==
  (desc.kind = "wind" /\ desc.pc = "returned" /\ ~isnan(MaxSpeed))
    => /\ \A i \in DOMAIN desc.wind_speed_knots :
            isnan(desc.wind_speed_knots[i]) \/ desc.wind_speed_knots[i] <= MaxSpeed
       /\ MaxSpeed \in Range(desc.wind_speed_knots)
       /\ (MaxSpeed < Knots(10)) = (desc.text = <<"light winds">>)
       /\ (MaxSpeed >= Knots(10) /\ MaxSpeed < Knots(20))
            = (desc.text = <<"moderate winds">>)
       /\ (MaxSpeed >= Knots(20) /\ MaxSpeed < Knots(30))
            = (desc.text = <<"strong winds">>)
       /\ (MaxSpeed >= Knots(30)) = (desc.text = <<"very strong winds">>)

\* C35 witness: a slice whose maximum is exactly 20 knots, beside a smaller
\* speed, is described as strong winds
C35_Witness ==
  /\ desc.kind = "wind" /\ desc.pc = "returned"
  /\ desc.wind_speed_knots = <<Knots(10), Knots(20)>>
  /\ desc.text = <<"strong winds">>

\* C36: a step changes a family's registry record only as the dump of an
\* update_gribs_json call for that family, the record of the other family stays
\* exactly as it was, and the new record is the call's path and download time
\* with the metadata of that path.
C36_PublishReplacesOneFamily ==
  [][gribs_json' # gribs_json
       => /\ ugj_pc = "dump"
          /\ \A k \in RegistryKeys : k # ugj_args.key => gribs_json'[k] = gribs_json[k]
          /\ gribs_json'[ugj_args.key] = GribRecord(ugj_args.path, ugj_args.t)]_vars

\* C36 witness: the second call has written the wave record into a registry that
\* held an atmos record, which is still the one the first call wrote
C36_Witness ==
  /\ ugj_pc = "set" /\ ugj_args.key = "wave" /\ ugj_args.t = 2
  /\ gribs_json.wave = GribRecord(ugj_args.path, 2)
  /\ gribs_json.atmos # NoRecord /\ gribs_json.atmos.download_time = 1

\* the GribFile a processor returns with its response: the atmospheric one for
\* a processor of atmospheric fields (wind, marine hazards), the wave one for
\* the wave processor
ReportedFile(p) ==
  IF FamilyOf(p) = "atmos" THEN atmos_grib_file_data[p] ELSE wave_grib_file_data[p]

\* C37: whenever a processor holds an open handle and the metadata of its family,
\* the path in that metadata is the path the handle was opened on.
C37_ProvenanceIsFileRead ==
  \A p \in Processors :
    (wave_grib[p].state = "open" /\ ReportedFile(p) # NoRecord)
      => ReportedFile(p).path = wave_grib[p].path

\* the box crosses the seam of the native longitudes: west bound negative, east
\* bound not, other than the whole circle -180 .. 180
CrossesSeam ==
  /\ slice_args.min_lon < 0 /\ slice_args.max_lon >= 0
  /\ ~(slice_args.min_lon = -180 /\ slice_args.max_lon = 180)

\* C38: a finished call for a box that crosses the seam has raised the
\* empty-region error and has returned nothing.
C38_SeamBoxRaises ==
  (slice_pc # "call" /\ CrossesSeam) => (slice_pc = "raised" /\ slice_ret = NoReturn)

\* C38 witness: the call raised for a box around the Greenwich meridian that has
\* grid rows between its latitudes and a grid column at longitude 0
C38_Witness ==
  /\ slice_pc = "raised" /\ CrossesSeam /\ ~NoRowInBox
  /\ slice_args.min_lon = -45 /\ slice_args.max_lon = 45

\* a hazard indicator is set
AnyHazard == \E k \in IndicatorFlags : desc.hazard_indicators[k]

\* C39: the hazard description ends with the no-significant-hazards sentence
\* exactly when no indicator is set and the maximum gust is below 25 knots, and
\* with the caution sentence otherwise.
C39_HazardSummarySentence ==
  (desc.kind = "hazards" /\ desc.pc = "returned")
    => IF ~AnyHazard /\ Less(desc.max_wind_speed, Knots(25))
         THEN desc.text[Len(desc.text)] = NoHazards
         ELSE desc.text[Len(desc.text)] = Caution

====
